---- MODULE Spec2Model ----
(***************************************************************************)
(* Model of buildPlugins (aiCore plugin builder): the ordered list of      *)
(* middleware plugins selected for one request from the provider, the      *)
(* model, the request configuration and the developer-mode setting.        *)
(*                                                                         *)
(* A plugin instance is represented by its kind (the name of the plugin).  *)
(* The capability predicates imported from other modules are pure          *)
(* functions of the provider and the model; their values are carried as    *)
(* attributes of the context.                                              *)
(***************************************************************************)
EXTENDS Integers, Sequences, FiniteSets

VARIABLES
    devMode,   \* the developer-mode setting read by getEnableDeveloperMode()
    ctx,       \* the BuildPluginsContext of the calls recorded in history
    history    \* the calls of buildPlugins made with ctx, oldest first

vars == <<devMode, ctx, history>>

---------------------------------------------------------------------------
(* Bounds *)

\* largest configured anthropicCacheControl.tokenThreshold
MaxThreshold == 1
\* largest number of entries of config.mcpTools
MaxTools == 1
\* largest number of calls made with one context
MaxCalls == 3
\* largest number of context fields that differ from the plain request,
\* where the calls are repeated or made to fail
MaxChanged == 4

---------------------------------------------------------------------------
(* The request context *)

\* an optional field that is absent
Undefined == "undefined"
\* provider.anthropicCacheControl?.tokenThreshold when the field is absent
NoThreshold == 0 - 1
\* config.mcpTools when the field is absent
NoTools == 0 - 1

\* SystemProviderIds.openrouter
OpenRouterId == "openrouter"

ProviderTypes == {"openai", "azure-openai", "anthropic", "gemini"}
ProviderIds == {OpenRouterId, "ovms", "other"}
TopicIds == {Undefined, "", "t1"}
Thresholds == {NoThreshold} \cup (0..MaxThreshold)
ToolCounts == {NoTools} \cup (0..MaxTools)

Contexts ==
    [ ptype : ProviderTypes,                \* provider.type
      pid : ProviderIds,                    \* provider.id
      tokenThreshold : Thresholds,          \* provider.anthropicCacheControl?.tokenThreshold
      ollama : BOOLEAN,                     \* isOllamaProvider(provider)
      enableThinking : BOOLEAN,             \* isSupportEnableThinkingProvider(provider)
      qwenThinking : BOOLEAN,               \* isSupportedThinkingTokenQwenModel(model)
      geminiImage : BOOLEAN,                \* isOpenRouterGeminiGenerateImageModel(model, provider)
      gemini3 : BOOLEAN,                    \* isGemini3Model(model)
      topicId : TopicIds,                   \* config.topicId
      streamOutput : BOOLEAN,               \* config.streamOutput
      mcpTools : ToolCounts,                \* config.mcpTools (its length)
      enableWebSearch : BOOLEAN,            \* config.enableWebSearch
      webSearchPluginConfig : BOOLEAN,      \* config.webSearchPluginConfig is present
      isSupportedToolUse : BOOLEAN,         \* config.isSupportedToolUse
      isPromptToolUse : BOOLEAN ]           \* config.isPromptToolUse

\* the plain request: an OpenAI provider, a model without special capabilities,
\* no streaming, no topic, no tools, no web search
PlainRequest ==
    [ ptype |-> "openai", pid |-> "other", tokenThreshold |-> NoThreshold,
      ollama |-> FALSE, enableThinking |-> FALSE, qwenThinking |-> FALSE,
      geminiImage |-> FALSE, gemini3 |-> FALSE, topicId |-> Undefined,
      streamOutput |-> FALSE, mcpTools |-> NoTools, enableWebSearch |-> FALSE,
      webSearchPluginConfig |-> FALSE, isSupportedToolUse |-> FALSE,
      isPromptToolUse |-> FALSE ]

Changed(c) == Cardinality({f \in DOMAIN c : c[f] # PlainRequest[f]})

NearContexts == {c \in Contexts : Changed(c) <= MaxChanged}

\* JavaScript truthiness of an optional string
TruthyString(s) == s # Undefined /\ s # ""
\* JavaScript truthiness of an optional number
TruthyNumber(n) == n # NoThreshold /\ n # 0

---------------------------------------------------------------------------
(* The guards, in the order of the if statements *)

\* variant: telemetry whenever a topic id is present
Guard0TopicOnly(c, dev) == TruthyString(c.topicId)

Guard0(c, dev) == TruthyString(c.topicId) /\ dev
Guard1(c) == c.ptype = "openai" \/ c.ptype = "azure-openai"

\* variant: the negation of streamOutput is dropped
Guard2Inverted(c) == c.streamOutput

Guard2(c) == ~c.streamOutput

\* variant: the provider type is not looked at
Guard3AnyType(c) == TruthyNumber(c.tokenThreshold)

Guard3(c) == c.ptype = "anthropic" /\ TruthyNumber(c.tokenThreshold)
Guard4(c) == c.pid = OpenRouterId
Guard5(c) == c.pid = "ovms" /\ c.mcpTools # NoTools /\ c.mcpTools > 0
Guard6(c) == ~c.ollama /\ c.qwenThinking /\ ~c.enableThinking
Guard7(c) == c.geminiImage
Guard8(c) == c.gemini3
Guard9(c) == c.enableWebSearch /\ c.webSearchPluginConfig

\* variant: search orchestration for native tool use only
Guard10NativeOnly(c) == c.isSupportedToolUse

Guard10(c) == c.isSupportedToolUse \/ c.isPromptToolUse
Guard11(c) == c.isPromptToolUse

NumRules == 12
Rules == 0..(NumRules - 1)

Guard(k, c, dev) ==
    CASE k = 0 -> Guard0(c, dev)
      [] k = 1 -> Guard1(c)
      [] k = 2 -> Guard2(c)
      [] k = 3 -> Guard3(c)
      [] k = 4 -> Guard4(c)
      [] k = 5 -> Guard5(c)
      [] k = 6 -> Guard6(c)
      [] k = 7 -> Guard7(c)
      [] k = 8 -> Guard8(c)
      [] k = 9 -> Guard9(c)
      [] k = 10 -> Guard10(c)
      [] k = 11 -> Guard11(c)

\* variant: the last rule pushes the plugin of the rule before it
PluginNameRepeated(k) ==
    CASE k = 0 -> "telemetry"
      [] k = 1 -> "reasoning-extraction"
      [] k = 2 -> "simulate-streaming"
      [] k = 3 -> "cache-control"
      [] k = 4 -> "reasoning-redaction"
      [] k = 5 -> "think-suppression"
      [] k = 6 -> "thinking-token-control"
      [] k = 7 -> "image-generation-redirect"
      [] k = 8 -> "signature-stripping"
      [] k = 9 -> "web-search"
      [] k = 10 -> "search-orchestration"
      [] k = 11 -> "search-orchestration"

\* the kind of the plugin each rule pushes
PluginName(k) ==
    CASE k = 0 -> "telemetry"
      [] k = 1 -> "reasoning-extraction"
      [] k = 2 -> "simulate-streaming"
      [] k = 3 -> "cache-control"
      [] k = 4 -> "reasoning-redaction"
      [] k = 5 -> "think-suppression"
      [] k = 6 -> "thinking-token-control"
      [] k = 7 -> "image-generation-redirect"
      [] k = 8 -> "signature-stripping"
      [] k = 9 -> "web-search"
      [] k = 10 -> "search-orchestration"
      [] k = 11 -> "prompt-tool-use"

---------------------------------------------------------------------------
(* The calls buildPlugins makes into other modules *)

\* no call raises an error
NoFault == "none"
NoError == "none"

\* what evaluating the condition of rule k calls, in order (&& short-circuits)
GuardCalls(k, c) ==
    CASE k = 0 -> IF TruthyString(c.topicId) THEN <<"getEnableDeveloperMode">> ELSE <<>>
      [] k = 6 -> <<"isOllamaProvider">>
                  \o (IF ~c.ollama THEN <<"isSupportedThinkingTokenQwenModel">> ELSE <<>>)
                  \o (IF ~c.ollama /\ c.qwenThinking
                      THEN <<"isSupportEnableThinkingProvider">> ELSE <<>>)
      [] k = 7 -> <<"isOpenRouterGeminiGenerateImageModel">>
      [] k = 8 -> <<"isGemini3Model">>
      [] OTHER -> <<>>

\* what the body of rule k calls before it pushes, in order
BodyCalls(k) ==
    CASE k = 0 -> <<"createTelemetryPlugin">>
      [] k = 1 -> <<"getReasoningTagName", "createReasoningExtractionPlugin">>
      [] k = 2 -> <<"createSimulateStreamingPlugin">>
      [] k = 3 -> <<"createAnthropicCachePlugin">>
      [] k = 4 -> <<"createOpenrouterReasoningPlugin">>
      [] k = 5 -> <<"createNoThinkPlugin">>
      [] k = 6 -> <<"createQwenThinkingPlugin">>
      [] k = 7 -> <<"createOpenrouterGenerateImagePlugin">>
      [] k = 8 -> <<"getAiSdkProviderId", "createSkipGeminiThoughtSignaturePlugin">>
      [] k = 9 -> <<"webSearchPlugin">>
      [] k = 10 -> <<"searchOrchestrationPlugin">>
      [] k = 11 -> <<"createPromptToolUsePlugin">>

Range(s) == {s[i] : i \in DOMAIN s}

\* every call site that can raise
Sites ==
    UNION {Range(BodyCalls(k)) : k \in Rules}
    \cup {"getEnableDeveloperMode", "isOllamaProvider", "isSupportedThinkingTokenQwenModel",
          "isSupportEnableThinkingProvider", "isOpenRouterGeminiGenerateImageModel",
          "isGemini3Model"}

---------------------------------------------------------------------------
(* buildPlugins *)

\* variant: simulate-streaming is pushed before reasoning-extraction
CodeOrderStreamingFirst == <<0, 2, 1, 3, 4, 5, 6, 7, 8, 9, 10, 11>>

\* variant: prompt-tool-use is pushed before search-orchestration
CodeOrderPromptToolFirst == <<0, 1, 2, 3, 4, 5, 6, 7, 8, 9, 11, 10>>

\* the if statements in textual order
CodeOrder == <<0, 1, 2, 3, 4, 5, 6, 7, 8, 9, 10, 11>>

\* variant: the array lives at module level and keeps what the last call left
SharedPlugins ==
    IF history = <<>> THEN <<>> ELSE history[Len(history)].result.returned

\* const plugins = []
NewPlugins == <<>>

\* the frame of a running call
Start ==
    [ plugins |-> NewPlugins,   \* the local array
      evaluated |-> {},         \* the rules whose condition has been evaluated
      calls |-> <<>>,           \* the calls made so far
      outcome |-> "running",
      error |-> NoError,
      logged |-> <<>> ]         \* the lines given to logger.debug

\* variant: the error is caught and the call carries on
ThrowSwallowed(f, site) == f

\* an error raised by site unwinds the call: nothing catches it
Throw(f, site) == [f EXCEPT !.outcome = "threw", !.error = site]

\* make the calls of sites in order; the one named fault raises
MakeCalls(f, sites, fault) ==
    LET hit == {i \in DOMAIN sites : sites[i] = fault}
    IN  IF hit = {}
        THEN [f EXCEPT !.calls = @ \o sites]
        ELSE LET i == CHOOSE j \in hit : \A h \in hit : j <= h
             IN  Throw([f EXCEPT !.calls = @ \o SubSeq(sites, 1, i)], fault)

\* one if statement
Rule(k, c, dev, fault, f) ==
    LET g == MakeCalls([f EXCEPT !.evaluated = @ \cup {k}], GuardCalls(k, c), fault)
    IN  IF g.outcome # "running" \/ ~Guard(k, c, dev)
        THEN g
        ELSE LET b == MakeCalls(g, BodyCalls(k), fault)
             IN  IF b.outcome # "running"
                 THEN b
                 ELSE [b EXCEPT !.plugins = Append(@, PluginName(k))]

\* logger.debug('Final plugin list:', names); return plugins
Return(f) == [f EXCEPT !.outcome = "returned", !.logged = Append(@, f.plugins)]

\* variant: an else-if chain, which stops at the first rule that pushes
RECURSIVE EvalFirstMatch(_, _, _, _, _)
EvalFirstMatch(i, c, dev, fault, f) ==
    IF f.outcome # "running"
    THEN f
    ELSE IF i > Len(CodeOrder) \/ f.plugins # <<>>
         THEN Return(f)
         ELSE EvalFirstMatch(i + 1, c, dev, fault, Rule(CodeOrder[i], c, dev, fault, f))

RECURSIVE Eval(_, _, _, _, _)
Eval(i, c, dev, fault, f) ==
    IF f.outcome # "running"
    THEN f
    ELSE IF i > Len(CodeOrder)
         THEN Return(f)
         ELSE Eval(i + 1, c, dev, fault, Rule(CodeOrder[i], c, dev, fault, f))

\* what the caller observes of a finished call
Observed(f) ==
    [ outcome |-> f.outcome,
      returned |-> IF f.outcome = "returned" THEN f.plugins ELSE <<>>,
      error |-> f.error,
      evaluated |-> f.evaluated,
      calls |-> f.calls,
      logged |-> f.logged ]

buildPlugins(c, dev, fault) == Observed(Eval(1, c, dev, fault, Start))

---------------------------------------------------------------------------
(* Actions *)

Init ==
    /\ devMode \in BOOLEAN
    /\ ctx \in Contexts
    /\ history = <<>>

InitNear ==
    /\ devMode \in BOOLEAN
    /\ ctx \in NearContexts
    /\ history = <<>>

\* one call of buildPlugins with the context; fault is the call site that
\* raises during it, if any
Call(fault) ==
    /\ history' = Append(history, [ dev |-> devMode, fault |-> fault,
                                    result |-> buildPlugins(ctx, devMode, fault) ])
    /\ UNCHANGED <<devMode, ctx>>

\* the request's call
Select ==
    /\ history = <<>>
    /\ Call(NoFault)

\* the request's call, during which one of the called functions raises
SelectFaulty ==
    /\ history = <<>>
    /\ \E site \in Sites : Call(site)

\* a later call with a structurally identical context
SelectAgain ==
    /\ history # <<>>
    /\ Len(history) < MaxCalls
    /\ Call(NoFault)

\* the user switches developer mode in the settings, between calls
SetDeveloperMode ==
    /\ devMode' = ~devMode
    /\ UNCHANGED <<ctx, history>>

Next == Select

Spec == Init /\ [][Next]_vars

NextFault == Select \/ SelectFaulty

SpecFault == InitNear /\ [][NextFault]_vars

NextRepeat == Select \/ SelectAgain \/ SetDeveloperMode

SpecRepeat == InitNear /\ [][NextRepeat]_vars

---------------------------------------------------------------------------
(* Properties *)

\* the calls that returned a sequence
ReturnedCalls == {i \in DOMAIN history : history[i].result.outcome = "returned"}

Has(seq, x) == \E i \in DOMAIN seq : seq[i] = x

\* rules 0..11 of the selection table
SelectionTable ==
    << "telemetry", "reasoning-extraction", "simulate-streaming", "cache-control",
       "reasoning-redaction", "think-suppression", "thinking-token-control",
       "image-generation-redirect", "signature-stripping", "web-search",
       "search-orchestration", "prompt-tool-use" >>

\* the selection table filtered to the rules whose guard holds
TableFiltered(c, dev) ==
    LET Holds(n) == \E k \in Rules : SelectionTable[k + 1] = n /\ Guard(k, c, dev)
    IN  SelectSeq(SelectionTable, Holds)

\* the context of the documented example
IsExample(c) ==
    /\ c.ptype = "openai"
    /\ ~c.streamOutput
    /\ c.topicId = Undefined
    /\ \A k \in Rules \ {1, 2} : ~Guard(k, c, FALSE)

\* C1: every returned sequence is the selection table's rules 0..11 filtered to
\* the rules whose guard holds, in the table's order, with every guard
\* evaluated; the documented example returns exactly reasoning-extraction,
\* simulate-streaming.
C1_ReturnsTableFiltered ==
    \A i \in ReturnedCalls :
        LET h == history[i]
        IN  /\ h.result.returned = TableFiltered(ctx, h.dev)
            /\ h.result.evaluated = Rules
            /\ IsExample(ctx) =>
                   h.result.returned = <<"reasoning-extraction", "simulate-streaming">>

C1_Witness ==
    /\ ReturnedCalls # {}
    /\ IsExample(ctx)
    /\ history[1].result.returned = <<"reasoning-extraction", "simulate-streaming">>

\* C2: when the provider type is openai or azure-openai and streamOutput is
\* false, the returned sequence holds reasoning-extraction and
\* simulate-streaming, the first at a strictly lower index than the second.
C2_ExtractionBeforeStreaming ==
    \A i \in ReturnedCalls :
        LET r == history[i].result.returned
        IN  /\ (ctx.ptype \in {"openai", "azure-openai"} /\ ~ctx.streamOutput) =>
                   Has(r, "reasoning-extraction") /\ Has(r, "simulate-streaming")
            /\ (Has(r, "reasoning-extraction") /\ Has(r, "simulate-streaming")) =>
                   \A a, b \in DOMAIN r :
                       (r[a] = "reasoning-extraction" /\ r[b] = "simulate-streaming")
                           => a < b

C2_Witness ==
    /\ ReturnedCalls # {}
    /\ ctx.ptype = "azure-openai"
    /\ LET r == history[1].result.returned
       IN  /\ Has(r, "telemetry")
           /\ Has(r, "reasoning-extraction")
           /\ Has(r, "simulate-streaming")
           /\ Has(r, "prompt-tool-use")

C4_NoTelemetryWithoutDeveloperMode ==
    \A i \in ReturnedCalls :
        ~history[i].dev => ~Has(history[i].result.returned, "telemetry")

C4_Witness ==
    /\ ReturnedCalls # {}
    /\ ~history[1].dev
    /\ ctx.topicId = "t1"
    /\ history[1].result.returned # <<>>

\* C5: with isSupportedToolUse and isPromptToolUse both true, the returned
\* sequence holds search-orchestration and prompt-tool-use, the first at a
\* lower index than the second.
C5_BothToolModes ==
    \A i \in ReturnedCalls :
        LET r == history[i].result.returned
        IN  (ctx.isSupportedToolUse /\ ctx.isPromptToolUse) =>
                /\ Has(r, "search-orchestration")
                /\ Has(r, "prompt-tool-use")
                /\ \A a, b \in DOMAIN r :
                       (r[a] = "search-orchestration" /\ r[b] = "prompt-tool-use")
                           => a < b

C5_Witness ==
    /\ ReturnedCalls # {}
    /\ ctx.isSupportedToolUse /\ ctx.isPromptToolUse
    /\ Has(history[1].result.returned, "prompt-tool-use")

\* every guard is false: streamOutput is true and no other guard holds
NoGuardHolds(c, dev) ==
    /\ c.streamOutput
    /\ \A k \in Rules \ {2} : ~Guard(k, c, dev)

\* C6: when all twelve guards are false (streamOutput being true), the
\* returned sequence is empty.
C6_NoGuardEmpty ==
    \A i \in ReturnedCalls :
        NoGuardHolds(ctx, history[i].dev) => history[i].result.returned = <<>>

C6_Witness ==
    /\ ReturnedCalls # {}
    /\ NoGuardHolds(ctx, history[1].dev)
    /\ ctx.topicId = "t1"
    /\ history[1].result.returned = <<>>

\* the rule during which site is called
RuleOf(site, c) ==
    CHOOSE k \in Rules : site \in Range(GuardCalls(k, c)) \cup Range(BodyCalls(k))

\* C7: when a predicate or a factory called during the call raises, the call
\* ends with that error: nothing is returned, nothing is called and no guard
\* is evaluated after the failing call, and the error is the one raised.
C7_ErrorPropagates ==
    \A i \in DOMAIN history :
        LET h == history[i]
            r == h.result
        IN  (h.fault # NoFault /\ Has(r.calls, h.fault)) =>
                /\ r.outcome = "threw"
                /\ r.error = h.fault
                /\ r.returned = <<>>
                /\ r.logged = <<>>
                /\ r.calls[Len(r.calls)] = h.fault
                /\ \A k \in r.evaluated : k <= RuleOf(h.fault, ctx)

C7_Witness ==
    /\ history # <<>>
    /\ history[1].fault = "searchOrchestrationPlugin"
    /\ history[1].result.outcome = "threw"
    /\ Has(history[1].result.calls, "createReasoningExtractionPlugin")
    /\ Has(history[1].result.calls, "createSimulateStreamingPlugin")
    /\ ctx.isPromptToolUse

\* C8: each plugin kind appears at most once in a returned sequence, which
\* therefore has at most 12 elements.
C8_NoDuplicates ==
    \A i \in ReturnedCalls :
        LET r == history[i].result.returned
        IN  /\ \A a, b \in DOMAIN r : r[a] = r[b] => a = b
            /\ Len(r) <= NumRules

C8_Witness ==
    /\ ReturnedCalls # {}
    /\ Len(history[1].result.returned) = 10

\* C9 as stated: cache-control is returned exactly when the provider type is
\* anthropic and a token threshold is set, whatever its value.
C9_CacheControlIffThresholdSet ==
    \A i \in ReturnedCalls :
        Has(history[i].result.returned, "cache-control")
            <=> (ctx.ptype = "anthropic" /\ ctx.tokenThreshold # NoThreshold)

\* C9 amended: cache-control is returned exactly when the provider type is
\* anthropic and the token threshold is set to a value other than 0.
C9_CacheControlIffThresholdNonZero ==
    \A i \in ReturnedCalls :
        Has(history[i].result.returned, "cache-control")
            <=> (ctx.ptype = "anthropic" /\ ctx.tokenThreshold \notin {NoThreshold, 0})

C9_Witness ==
    /\ ReturnedCalls # {}
    /\ ctx.ptype = "anthropic"
    /\ ctx.tokenThreshold >= 1
    /\ Has(history[1].result.returned, "cache-control")

\* C10: when prompt-tool-use is in the returned sequence it is the last
\* element and search-orchestration is the element just before it.
C10_PromptToolUseLast ==
    \A i \in ReturnedCalls :
        LET r == history[i].result.returned
        IN  Has(r, "prompt-tool-use") =>
                /\ Len(r) >= 2
                /\ r[Len(r)] = "prompt-tool-use"
                /\ r[Len(r) - 1] = "search-orchestration"

C10_Witness ==
    /\ ReturnedCalls # {}
    /\ ~ctx.isSupportedToolUse
    /\ LET r == history[1].result.returned
       IN  /\ Len(r) >= 3
           /\ r[Len(r)] = "prompt-tool-use"

====
